---- MODULE Spec2Model ----
(***************************************************************************)
(* Memory-efficient model loader of the Backdoor AI server                 *)
(* (utils/memory_efficient_model.py): the process-wide model cache and its *)
(* lock, the URL resolver, the metadata probe, the streaming loader with   *)
(* its two scratch modes, and the prediction wrapper.  Each thread runs    *)
(* one call at a time; a call advances one collaborator interaction per    *)
(* step, so that calls of different threads interleave as Python threads   *)
(* do.  The collaborators (storage backend, transport, file system,        *)
(* coremltools, preprocessor, the model handle) answer nondeterministically*)
(* with every outcome the code distinguishes, raising included.            *)
(***************************************************************************)
EXTENDS Integers, Sequences, FiniteSets, TLC

\* ---------------------------------------------------------------- bounds
\* Calls one caller makes one after the other (Spec).
MaxCalls == 3
\* Calls two concurrent callers start between them (ConcSpec).
MaxRacing == 2
\* Bytes (in units of half a MiB) the transport serves in one download.
MaxBytes == 3
\* Longest body of the streaming specification: one unit past PROGRESS_EVERY.
MaxStream == 41
\* Calls of the streaming specification.
MaxLoads == 1
\* Longest body of the specification with fairness.
MaxLiveBytes == 1
\* Longest buffer and furthest stream position of the virtual file.
MaxFile == 3
\* Bytes written to the virtual file over its life.
MaxWritten == 4

\* ------------------------------------------------------------- constants
Threads == {"t1", "t2"}
Names == {"a", "b"}
NoThread == "none"
\* 'model': None  (a handle is a positive object identity)
NoHandle == 0
\* No scratch object bound to the local tmp / tmp_path.
NoScratch == 0
\* iter_content(chunk_size=1024*1024), in units of half a MiB.
CHUNK_SIZE == 2
\* line 134: 20*1024*1024, in the same unit
PROGRESS_EVERY == 40
HttpStatuses == {200, 404}
\* folders_to_try, in order; the default folder is None in the source.
folders_to_try == <<"default", "base_model">>
\* What dropbox_storage.get_model_stream can answer for one folder:
\*   url      {'success': True, 'download_url': <non-empty>}
\*   emptyurl {'success': True, 'download_url': None or ''}
\*   nokey    {'success': True} without a download_url key
\*   fail     {'success': False, ...} or None
\*   raise    an exception
StreamAnswers == {"url", "emptyurl", "nokey", "fail", "raise"}
NoUrl == "none"
UrlOf(folder) == "url_" \o folder
\* How requests.head can end for get_model_metadata: status 200, another
\* status, or an exception (of the request, or of int() on Content-Length).
ProbeOutcomes == {"ok", "status", "raise"}
\* How `import coremltools` can end: imported, ImportError, another exception.
ImportOutcomes == {"ok", "import_error", "raise"}
\* How the GET can end in memory-only mode: the request raises, a status
\* other than 200, a content-length that int() rejects, or 200.
MemGetOutcomes == {"raise", "status", "bad_length", "ok"}
\* How the GET and open(tmp_path) can end in disk mode.
DiskGetOutcomes == {"raise", "status", "ok"}
\* How preprocess_text can end: a text, ImportError of the module, another
\* exception.
PreprocessOutcomes == {"ok", "import_error", "raise"}
\* The entry points a caller can use.
Operations == {"load", "predict"}
LoadOnly == {"load"}
\* line 120: int(response.headers.get('content-length', 0)): the header is
\* missing, or declares a length
ContentLengths == {0, 1}

\* ----------------------------------------------------------------- state
VARIABLES
    model_cache,        \* the global dict: cached name -> entry
    model_cache_lock,   \* owner of the RLock, or NoThread
    memory_only_mode,   \* os.environ.get('MEMORY_ONLY_MODE') == 'True'
    scratch,            \* scratch storage: how many objects were made, and
                        \* the ones that exist (open buffer, file on disk)
    nextHandle,         \* identity of the next deserialized model object
    ncalls,             \* calls started so far
    loaded,             \* names for which a non-validation load returned success
    pc,                 \* per thread: position in the running call
    call,               \* per thread: the running call's arguments
    loc,                \* per thread: the running call's local variables
    result,             \* per thread: load_model_efficiently's result dict
    presult,            \* per thread: predict_intent's result dict
    obs,                \* per thread: what the running call has done so far
    dbx,                \* ensure_dropbox_folders: the backend's folders and
                        \* the position of the running call
    vfile               \* a virtual NamedTemporaryFile and its last operation

vars == <<model_cache, model_cache_lock, memory_only_mode, scratch, nextHandle,
          ncalls, loaded, pc, call, loc, result, presult, obs, dbx, vfile>>

\* ------------------------------------------------------- values, helpers
EmptyMeta == [kind |-> "empty", of |-> NoHandle]
\* get_model_metadata: the four header fields
ProbeMeta == [kind |-> "probe", of |-> NoHandle]
\* lines 179-183: description, license, version of the loaded handle
ModelMeta(h) == [kind |-> "model", of |-> h]

Err(kind, code) == [kind |-> kind, code |-> code]

NoCall == [op |-> "none", model_name |-> "none", validation_only |-> FALSE]

InitLoc == [model_url |-> NoUrl, folder |-> 1, mem |-> FALSE, tmp |-> NoScratch,
            model |-> NoHandle, downloaded |-> 0, chunk |-> 0,
            status |-> 0, pending |-> "none", total_size |-> 0]

\* lines 55-63
FreshResult == [success |-> FALSE, model |-> NoHandle, metadata |-> EmptyMeta,
                errors |-> <<>>, warnings |-> <<>>, from_cache |-> FALSE,
                load_time |-> "zero"]

\* A cache hit that forgets the handle.
CachedResultNoHandle(entry) == [success |-> TRUE, model |-> NoHandle,
                                metadata |-> entry.metadata, from_cache |-> TRUE,
                                load_time |-> "elapsed"]

\* lines 47-53: the dict returned on a cache hit
CachedResult(entry) == [success |-> TRUE, model |-> entry.model,
                        metadata |-> entry.metadata, from_cache |-> TRUE,
                        load_time |-> "elapsed"]

NoResult == [success |-> FALSE]

\* lines 187-191: a cache entry; url, status and deser record the load that
\* built it (what it resolved, downloaded and deserialized).
Entry(h, meta, url, status, deser) ==
    [model |-> h, metadata |-> meta, loaded_at |-> "now",
     url |-> url, status |-> status, deser |-> deser]

NoEntry == Entry(NoHandle, EmptyMeta, NoUrl, 0, 0)

\* A scratch object: the virtual file's BytesIO (kind "mem"; it exists
\* until it is closed) or the temporary file on disk (kind "disk"; it
\* exists until it is unlinked).
NewScratch(kind, t) == [kind |-> kind, size |-> 0, owner |-> t]

\* 'probabilities': {}
EmptyMap == [c \in {} |-> 0]

\* lines 295-300
FreshPResult == [success |-> FALSE, intent |-> "none", probabilities |-> EmptyMap,
                 errors |-> <<>>]

InitObs == [queries |-> <<>>, storage |-> 0, head |-> 0, get |-> 0, deser |-> 0,
            mkscratch |-> 0, unlink |-> 0, preprocess |-> 0, predict |-> 0,
            inserted |-> FALSE, faults |-> {}, warm |-> FALSE, hit |-> FALSE,
            url_none |-> FALSE, entry |-> NoEntry, made |-> NoScratch,
            status |-> 0, shape |-> "none", served |-> 0, progress |-> 0,
            before |-> [n \in {} |-> NoEntry]]

\* ensure_dropbox_folders has not been called: no backend state is known.
NoEnsure == [pc |-> "idle", which |-> "none", i |-> 0, exists |-> {},
             ret |-> "none", found |-> {}, tried |-> {}, created |-> {},
             failed |-> {}, readme |-> "none"]

NoOp == [op |-> "none", raised |-> "no", ret |-> <<>>]

\* No NamedTemporaryFile has been constructed.
NoFile == [made |-> FALSE, mode |-> "none", closed |-> FALSE, buffer |-> <<>>,
           pos |-> 0, buffer_closed |-> FALSE, inwith |-> FALSE,
           written |-> <<>>, appended |-> TRUE, value |-> <<>>,
           closed_by |-> "none", last |-> NoOp]

Init ==
    /\ model_cache = [n \in {} |-> NoEntry]
    /\ model_cache_lock = NoThread
    /\ memory_only_mode \in BOOLEAN
    /\ scratch = [made |-> 0, objs |-> [i \in {} |-> NewScratch("none", NoThread)]]
    /\ nextHandle = 1
    /\ ncalls = 0
    /\ loaded = {}
    /\ pc = [t \in Threads |-> "idle"]
    /\ call = [t \in Threads |-> NoCall]
    /\ loc = [t \in Threads |-> InitLoc]
    /\ result = [t \in Threads |-> NoResult]
    /\ presult = [t \in Threads |-> FreshPResult]
    /\ obs = [t \in Threads |-> InitObs]
    /\ dbx = NoEnsure
    /\ vfile = NoFile


\* ------------------------------------------------------ update helpers
\* The locals of load_model_efficiently are gone once it has returned.
Local(t, p, l, r, o) ==
    /\ pc' = [pc EXCEPT ![t] = p]
    /\ loc' = [loc EXCEPT ![t] = IF p = "done" THEN InitLoc ELSE l]
    /\ result' = [result EXCEPT ![t] = r]
    /\ obs' = [obs EXCEPT ![t] = o]

Count(o, what) == [o EXCEPT ![what] = @ + 1]
Fault(o, what) == [o EXCEPT !.faults = @ \cup {what}]

\* result['errors'].append(error)
AppendError(r, e) == [r EXCEPT !.errors = Append(@, e)]
\* line 208, on the paths that reach it
Timed(r) == [r EXCEPT !.load_time = "elapsed"]

\* A handler that logs the exception without recording it.
LoadErrorSilent(r) == Timed(r)

\* lines 198-201 then 208-209: the inner handler's result
LoadError(r) == Timed(AppendError(r, Err("load_error", 0)))
\* lines 68-72: no URL, returned without setting load_time
ResolutionError(r) == AppendError(r, Err("resolution", 0))

\* ---------------------------------------------------------------- calls
\* A caller starts load_model_efficiently(name, validation_only) or
\* predict_intent(text, name), which loads with validation_only=False.
Call(t, bound, ops) ==
    /\ pc[t] = "idle"
    /\ ncalls < bound
    /\ \E op \in ops, n \in Names, v \in BOOLEAN :
        /\ (op = "predict") => ~v
        /\ call' = [call EXCEPT ![t] =
                      [op |-> op, model_name |-> n, validation_only |-> v]]
        /\ Local(t, "acquire_check", InitLoc, NoResult,
                 [InitObs EXCEPT !.warm = (n \in loaded /\ ~v),
                                 !.before = model_cache])
    /\ presult' = [presult EXCEPT ![t] = FreshPResult]
    /\ ncalls' = ncalls + 1
    /\ UNCHANGED <<model_cache, model_cache_lock, memory_only_mode, dbx, vfile, scratch,
                   nextHandle, loaded>>

\* A critical section entered without the lock.
AcquireSkipped(t, from, to) ==
    /\ pc[t] = from
    /\ pc' = [pc EXCEPT ![t] = to]
    /\ UNCHANGED <<model_cache, model_cache_lock, memory_only_mode, dbx, vfile, scratch,
                   nextHandle, ncalls, loaded, call, loc, result, presult, obs>>

\* line 43: with model_cache_lock (an RLock: free, or already owned)
Acquire(t, from, to) ==
    /\ pc[t] = from
    /\ model_cache_lock \in {NoThread, t}
    /\ model_cache_lock' = t
    /\ pc' = [pc EXCEPT ![t] = to]
    /\ UNCHANGED <<model_cache, memory_only_mode, dbx, vfile, scratch, nextHandle, ncalls,
                   loaded, call, loc, result, presult, obs>>

AcquireCheck(t) == Acquire(t, "acquire_check", "cache_get")

\* A lookup that takes the hit for validation requests too.
CacheHitAlways(cached, validation_only) == cached

\* A lookup that takes the hit only for validation requests.
CacheHitInverted(cached, validation_only) == cached /\ validation_only

\* line 45: `cached_model and not validation_only`; an entry is a dict of
\* three keys, so it is truthy whenever the name is cached.
CacheHit(cached, validation_only) == cached /\ ~validation_only

\* A with-block left without giving the lock back.
ReleaseLockKept(t) == t

\* lines 43 and 186: leaving `with model_cache_lock` frees the lock
ReleaseLock(t) == NoThread

\* lines 44-53 (hit) or 55-63 (miss); leaving the with-block frees the lock
CacheGet(t) ==
    /\ pc[t] = "cache_get"
    /\ model_cache_lock = t
    /\ LET n == call[t].model_name IN
       IF CacheHit(n \in DOMAIN model_cache, call[t].validation_only)
       THEN Local(t, "done", loc[t], CachedResult(model_cache[n]),
                  [obs[t] EXCEPT !.hit = TRUE, !.entry = model_cache[n]])
       ELSE Local(t, "get_storage", loc[t], FreshResult, obs[t])
    /\ model_cache_lock' = ReleaseLock(t)
    /\ UNCHANGED <<model_cache, memory_only_mode, dbx, vfile, scratch, nextHandle, ncalls,
                   loaded, call, presult>>

\* --------------------------------------------------------- get_model_url
\* line 237: stream_info and stream_info.get('success') and
\* 'download_url' in stream_info
StreamHasUrl(ans) == ans \in {"url", "emptyurl"}

\* line 239: the value under download_url
StreamUrl(ans, folder) == IF ans = "url" THEN UrlOf(folder) ELSE NoUrl

\* A loop that stops at the first folder that gives no URL.
AfterAnswerGivesUp(ans, i) == IF StreamHasUrl(ans) THEN "return" ELSE "exhausted"

\* A loop that never reaches the last folder.
AfterAnswerSkipsLast(ans, i) ==
    IF StreamHasUrl(ans) THEN "return"
    ELSE IF i + 1 < Len(folders_to_try) THEN "next"
    ELSE "exhausted"

\* lines 234-244: what one answer makes the loop do:
\* return the URL, try the next folder, or give up with None.
AfterAnswer(ans, i) ==
    IF StreamHasUrl(ans) THEN "return"
    ELSE IF i < Len(folders_to_try) THEN "next"
    ELSE "exhausted"

\* A loader that does not test the URL it was given.
UrlMissingNever(url) == FALSE

\* line 68: `if not model_url`
UrlMissing(url) == url = NoUrl

\* A loader that ignores validation_only once the URL is known.
AfterResolveAlwaysLoads(validation_only) == "import_ct"

\* A loader that probes before every load.
AfterResolveAlwaysProbes(validation_only) == "probe"

\* line 77: `if validation_only`: the probe, or else the full load
AfterResolve(validation_only) == IF validation_only THEN "probe" ELSE "import_ct"

\* lines 67-92 after get_model_url has returned `url`
Resolved(t, url, o) ==
    IF UrlMissing(url)
    THEN Local(t, "done", loc[t], ResolutionError(result[t]), o)
    ELSE Local(t, AfterResolve(call[t].validation_only),
               [loc[t] EXCEPT !.model_url = url],
               ("download_url" :> url) @@ result[t], o)

\* get_model_url returns `url` (None when url = NoUrl)
Returned(o, url) == [o EXCEPT !.url_none = (url = NoUrl)]

\* lines 221-226 and 246-248: importing the storage module or obtaining the
\* backend may raise; the outer handler then returns None.
GetStorageOk(t) ==
    /\ pc[t] = "get_storage"
    /\ Local(t, "query", [loc[t] EXCEPT !.folder = 1], result[t], obs[t])
    /\ UNCHANGED <<model_cache, model_cache_lock, memory_only_mode, dbx, vfile, scratch,
                   nextHandle, ncalls, loaded, call, presult>>

GetStorageRaise(t) ==
    /\ pc[t] = "get_storage"
    /\ Resolved(t, NoUrl, Returned(Fault(obs[t], "storage_backend"), NoUrl))
    /\ UNCHANGED <<model_cache, model_cache_lock, memory_only_mode, dbx, vfile, scratch,
                   nextHandle, ncalls, loaded, call, presult>>

\* line 236: one get_model_stream(model_name, folder=folder)
Query(t) ==
    /\ pc[t] = "query"
    /\ \E ans \in StreamAnswers :
        LET i == loc[t].folder
            f == folders_to_try[i]
            o0 == [Count(obs[t], "storage") EXCEPT
                     !.queries = Append(@, [folder |-> f, ok |-> StreamHasUrl(ans)])]
            o == IF ans = "raise" THEN Fault(o0, "storage_query") ELSE o0
            next == AfterAnswer(ans, i)
        IN  CASE next = "return" ->
                    Resolved(t, StreamUrl(ans, f), Returned(o, StreamUrl(ans, f)))
              [] next = "next" ->
                    Local(t, "query", [loc[t] EXCEPT !.folder = i + 1], result[t], o)
              [] OTHER -> Resolved(t, NoUrl, Returned(o, NoUrl))
    /\ UNCHANGED <<model_cache, model_cache_lock, memory_only_mode, dbx, vfile, scratch,
                   nextHandle, ncalls, loaded, call, presult>>

\* ---------------------------------------------------- get_model_metadata
\* lines 77-92 with 260-279: one HEAD request; a non-200 status and an
\* exception (the request, or int() of a bad Content-Length) both give None.
Probe(t) ==
    /\ pc[t] = "probe"
    /\ \E out \in ProbeOutcomes :
        LET o0 == Count(obs[t], "head")
            o == IF out = "raise" THEN Fault(o0, "probe") ELSE o0
        IN  IF out = "ok"
            THEN Local(t, "done", loc[t],
                       Timed([result[t] EXCEPT !.metadata = ProbeMeta,
                                               !.success = TRUE]), o)
            ELSE Local(t, "done", loc[t],
                       Timed(AppendError(result[t], Err("validate_metadata", 0))), o)
    /\ UNCHANGED <<model_cache, model_cache_lock, memory_only_mode, dbx, vfile, scratch,
                   nextHandle, ncalls, loaded, call, presult>>


\* ------------------------------------------------------ streaming loader
\* lines 98-108: import coremltools, then read the memory-only flag.
\* ImportError returns at once (line 105); any other exception raised by the
\* import reaches the handler of line 198.
\* A selection that ignores the flag.
SelectScratchAlwaysDisk(flag) == "disk_mktemp"

\* line 110: `if memory_only_mode`: the virtual file, or else a file on disk
SelectScratch(flag) == IF flag THEN "mem_get" ELSE "disk_mktemp"

ImportCt(t) ==
    /\ pc[t] = "import_ct"
    /\ \E out \in ImportOutcomes :
        CASE out = "ok" ->
               Local(t, SelectScratch(memory_only_mode),
                     [loc[t] EXCEPT !.mem = memory_only_mode], result[t], obs[t])
          [] out = "import_error" ->
               Local(t, "done", loc[t],
                     AppendError(result[t], Err("no_coremltools", 0)),
                     Fault(obs[t], "import"))
          [] OTHER ->
               Local(t, "done", loc[t], LoadError(result[t]), Fault(obs[t], "import"))
    /\ UNCHANGED <<model_cache, model_cache_lock, memory_only_mode, dbx, vfile, scratch,
                   nextHandle, ncalls, loaded, call, presult>>

\* tempfile.NamedTemporaryFile / virtual_tempfile.NamedTemporaryFile give
\* every caller an object of its own (a fresh name, a fresh buffer).
FreshScratch == scratch.made + 1

Create(kind, t) ==
    [made |-> scratch.made + 1,
     objs |-> (FreshScratch :> NewScratch(kind, t)) @@ scratch.objs]

\* A check that looks for the file in the wrong place.
ExistsNever(id) == FALSE

\* os.path.exists(tmp_path); the virtual file is not yet closed
Exists(id) == id \in DOMAIN scratch.objs

\* A release that leaves the object in place.
ReleaseForgotten(id) == scratch

\* close() of the virtual file, os.unlink of the temporary file
Release(id) ==
    [scratch EXCEPT !.objs = [i \in (DOMAIN scratch.objs) \ {id} |-> scratch.objs[i]]]

\* An error message that leaves the status out.
HttpErrorUnnamed(status) == Err("http_status", 0)

\* lines 140-144 and 165-169: the error for a status other than 200
HttpError(status) == Err("http_status", status)

\* lines 119-126, memory-only mode: GET, then the status, then the
\* content-length header (int() raises on a malformed one), then the
\* virtual temporary file.
MemGet(t) ==
    /\ pc[t] = "mem_get"
    /\ \E out \in MemGetOutcomes, st \in HttpStatuses :
        LET o0 == Count(obs[t], "get")
            o == IF out = "raise" THEN o0 ELSE [o0 EXCEPT !.status = st] IN
        CASE out = "raise" ->
               /\ st = 200
               /\ Local(t, "done", loc[t], LoadError(result[t]), Fault(o, "download"))
               /\ UNCHANGED scratch
          [] out = "status" ->
               /\ st # 200
               /\ Local(t, "done", [loc[t] EXCEPT !.status = st],
                        AppendError(result[t], HttpError(st)), o)
               /\ UNCHANGED scratch
          [] out = "bad_length" ->
               /\ st = 200
               /\ Local(t, "done", [loc[t] EXCEPT !.status = st],
                        LoadError(result[t]), Fault(o, "download"))
               /\ UNCHANGED scratch
          [] OTHER ->
               /\ st = 200
               /\ scratch' = Create("mem", t)
               /\ \E total_size \in ContentLengths :
                    Local(t, "read",
                          [loc[t] EXCEPT !.status = st, !.tmp = FreshScratch,
                                         !.total_size = total_size],
                          result[t], [Count(o, "mkscratch") EXCEPT !.made = FreshScratch])
    /\ UNCHANGED <<model_cache, model_cache_lock, memory_only_mode, dbx, vfile,
                   nextHandle, ncalls, loaded, call, presult>>

\* lines 150-151, disk mode: the temporary file is created (delete=False)
\* before the request; a failure here is outside the try/finally.
DiskMktemp(t) ==
    /\ pc[t] = "disk_mktemp"
    /\ \/ /\ scratch' = Create("disk", t)
          /\ Local(t, "disk_get", [loc[t] EXCEPT !.tmp = FreshScratch], result[t],
                   [Count(obs[t], "mkscratch") EXCEPT !.made = FreshScratch])
       \/ /\ Local(t, "done", loc[t], LoadError(result[t]), Fault(obs[t], "scratch"))
          /\ UNCHANGED scratch
    /\ UNCHANGED <<model_cache, model_cache_lock, memory_only_mode, dbx, vfile,
                   nextHandle, ncalls, loaded, call, presult>>

\* lines 155-157 and 165-169, disk mode: GET, the status, open(tmp_path).
\* Every way out of the try goes through the finally of line 170.
DiskGet(t) ==
    /\ pc[t] = "disk_get"
    /\ \E out \in DiskGetOutcomes, st \in HttpStatuses :
        LET o0 == Count(obs[t], "get")
            o == IF out = "raise" THEN o0 ELSE [o0 EXCEPT !.status = st] IN
        CASE out = "raise" ->
               /\ st = 200
               /\ Local(t, "cleanup", [loc[t] EXCEPT !.pending = "raise"],
                        result[t], Fault(o, "download"))
          [] out = "status" ->
               /\ st # 200
               /\ Local(t, "cleanup", [loc[t] EXCEPT !.status = st, !.pending = "return"],
                        AppendError(result[t], HttpError(st)), o)
          [] OTHER ->
               /\ st = 200
               /\ Local(t, "read", [loc[t] EXCEPT !.status = st], result[t], o)
    /\ UNCHANGED <<model_cache, model_cache_lock, memory_only_mode, dbx, vfile, scratch,
                   nextHandle, ncalls, loaded, call, presult>>

\* An exception inside the download: memory-only mode leaves the
\* with-block of line 126 (the virtual file closes itself) and reaches the
\* handler of line 198; disk mode reaches the finally of line 170 first.
Abort(t, o) ==
    IF loc[t].mem
    THEN /\ scratch' = Release(loc[t].tmp)
         /\ Local(t, "done", [loc[t] EXCEPT !.chunk = 0], LoadError(result[t]), o)
    ELSE /\ UNCHANGED scratch
         /\ Local(t, "cleanup", [loc[t] EXCEPT !.chunk = 0, !.pending = "raise"],
                  result[t], o)

\* A transport asked for the whole body at once.
ChunkSizesWhole(chunk_size) == 0..MaxBytes

\* iter_content(chunk_size=...): a chunk has at most chunk_size bytes
ChunkSizes(chunk_size) == 0..chunk_size

\* lines 128-129 / 159-160: the next chunk of iter_content; an empty chunk
\* is skipped; the stream ends, or the transport fails.
ReadUpTo(t, bound) ==
    /\ pc[t] = "read"
    /\ \/ /\ \E n \in ChunkSizes(CHUNK_SIZE) :
               /\ scratch.objs[loc[t].tmp].size + n <= bound
               /\ Local(t, IF n = 0 THEN "read" ELSE "write",
                        [loc[t] EXCEPT !.chunk = n], result[t],
                        [obs[t] EXCEPT !.served = @ + n])
          /\ UNCHANGED scratch
       \/ /\ Local(t, "deser", loc[t], result[t], obs[t])
          /\ UNCHANGED scratch
       \/ Abort(t, Fault(obs[t], "download"))
    /\ UNCHANGED <<model_cache, model_cache_lock, memory_only_mode, dbx, vfile,
                   nextHandle, ncalls, loaded, call, presult>>

Read(t) == ReadUpTo(t, MaxBytes)

\* line 134: `total_size > 0 and downloaded % (20*1024*1024) == 0`
ProgressDue(total_size, downloaded) ==
    total_size > 0 /\ downloaded % PROGRESS_EVERY = 0

\* lines 130-136 / 161: write the chunk; only memory-only mode counts the
\* bytes and logs the progress.  The write itself may fail (no space, no
\* memory).
Write(t) ==
    /\ pc[t] = "write"
    /\ \/ /\ scratch' = [scratch EXCEPT !.objs[loc[t].tmp].size = @ + loc[t].chunk]
          /\ LET downloaded == IF loc[t].mem THEN loc[t].downloaded + loc[t].chunk
                               ELSE loc[t].downloaded
             IN  Local(t, "read",
                       [loc[t] EXCEPT !.chunk = 0, !.downloaded = downloaded],
                       result[t],
                       IF loc[t].mem /\ ProgressDue(loc[t].total_size, downloaded)
                       THEN Count(obs[t], "progress") ELSE obs[t])
       \/ Abort(t, Fault(obs[t], "scratch"))
    /\ UNCHANGED <<model_cache, model_cache_lock, memory_only_mode, dbx, vfile,
                   nextHandle, ncalls, loaded, call, presult>>

\* lines 139 / 164: ct.models.MLModel(tmp) builds a new model object or
\* raises.  Memory-only mode then leaves the with-block (the file closes).
Deser(t) ==
    /\ pc[t] = "deser"
    /\ \/ /\ nextHandle' = nextHandle + 1
          /\ IF loc[t].mem
             THEN /\ scratch' = Release(loc[t].tmp)
                  /\ Local(t, "metadata", [loc[t] EXCEPT !.model = nextHandle],
                           result[t], Count(obs[t], "deser"))
             ELSE /\ UNCHANGED scratch
                  /\ Local(t, "cleanup",
                           [loc[t] EXCEPT !.model = nextHandle, !.pending = "ok"],
                           result[t], Count(obs[t], "deser"))
       \/ /\ UNCHANGED nextHandle
          /\ Abort(t, Fault(Count(obs[t], "deser"), "deserialize"))
    /\ UNCHANGED <<model_cache, model_cache_lock, memory_only_mode, dbx, vfile,
                   ncalls, loaded, call, presult>>

\* A finally block that swallows the pending exception.
AfterCleanupSwallows(pending) ==
    CASE pending = "return" -> "return"
      [] OTHER -> "metadata"

\* lines 198-201 / 169 / 178: where the finally block hands control
AfterCleanup(pending) ==
    CASE pending = "raise" -> "error"
      [] pending = "return" -> "return"
      [] OTHER -> "metadata"

\* lines 170-176: the finally block.  os.unlink may fail; the handler of
\* line 175 only logs a warning, and the file stays.
Cleanup(t) ==
    /\ pc[t] = "cleanup"
    /\ \E unlinked \in BOOLEAN :
        LET exists == Exists(loc[t].tmp)
            o0 == IF exists THEN Count(obs[t], "unlink") ELSE obs[t]
            o == IF exists /\ ~unlinked THEN Fault(o0, "unlink") ELSE o0
            l == [loc[t] EXCEPT !.pending = "none"]
            next == AfterCleanup(loc[t].pending)
        IN  /\ scratch' = IF exists /\ unlinked THEN Release(loc[t].tmp) ELSE scratch
            /\ CASE next = "error" -> Local(t, "done", l, LoadError(result[t]), o)
                 [] next = "return" -> Local(t, "done", l, result[t], o)
                 [] OTHER -> Local(t, "metadata", l, result[t], o)
    /\ UNCHANGED <<model_cache, model_cache_lock, memory_only_mode, dbx, vfile,
                   nextHandle, ncalls, loaded, call, presult>>

\* lines 179-183: getattr / user_defined_metadata.get on the handle
Metadata(t) ==
    /\ pc[t] = "metadata"
    /\ \/ Local(t, "acquire_insert", loc[t],
                [result[t] EXCEPT !.metadata = ModelMeta(loc[t].model)], obs[t])
       \/ Local(t, "done", loc[t], LoadError(result[t]), Fault(obs[t], "metadata"))
    /\ UNCHANGED <<model_cache, model_cache_lock, memory_only_mode, dbx, vfile, scratch,
                   nextHandle, ncalls, loaded, call, presult>>

\* line 186
AcquireInsert(t) == Acquire(t, "acquire_insert", "insert")

\* The handle stored in the result without the success flag.
LoadedNoFlag(r, h) == Timed([r EXCEPT !.model = h])

\* lines 194-195, 208
Loaded(r, h) == Timed([r EXCEPT !.model = h, !.success = TRUE])

\* An insert that keeps an entry already there.
StoreIfAbsent(cache, name, entry) == cache @@ (name :> entry)

\* An insert that drops the other names.
StoreAlone(cache, name, entry) == (name :> entry)

\* line 187: model_cache[model_name] = {...}: the name's entry is replaced,
\* the other names keep theirs
Store(cache, name, entry) == (name :> entry) @@ cache

\* lines 187-196: the insert under the lock, then the success fields
Insert(t) ==
    /\ pc[t] = "insert"
    /\ model_cache_lock = t
    /\ model_cache' = Store(model_cache, call[t].model_name,
                            Entry(loc[t].model, result[t].metadata, loc[t].model_url,
                                  loc[t].status, obs[t].deser))
    /\ model_cache_lock' = ReleaseLock(t)
    /\ Local(t, "done", loc[t], Loaded(result[t], loc[t].model),
             [obs[t] EXCEPT !.inserted = TRUE])
    /\ UNCHANGED <<memory_only_mode, dbx, vfile, scratch, nextHandle, ncalls, loaded, call,
                   presult>>


\* ------------------------------------------------------- returning, predict
Reset(t) ==
    /\ call' = [call EXCEPT ![t] = NoCall]
    /\ presult' = [presult EXCEPT ![t] = FreshPResult]
    /\ Local(t, "idle", InitLoc, NoResult, InitObs)

\* A successful non-validation load has returned for this name.
NowLoaded(t) ==
    IF result[t].success /\ ~call[t].validation_only
    THEN loaded \cup {call[t].model_name}
    ELSE loaded

\* load_model_efficiently returns its result to the caller.
LoadReturn(t) ==
    /\ pc[t] = "done"
    /\ call[t].op = "load"
    /\ loaded' = NowLoaded(t)
    /\ Reset(t)
    /\ UNCHANGED <<model_cache, model_cache_lock, memory_only_mode, dbx, vfile, scratch,
                   nextHandle, ncalls>>

\* A propagation that drops the load's errors.
ExtendNothing(errs, more) == errs

\* line 305: result['errors'].extend(model_info['errors'])
Extend(errs, more) == errs \o more

\* predict_intent, lines 303-309: the load has returned to it.  On success
\* only the handle is read from model_info (line 309), and nothing of the
\* load is read again; what the load did is no longer recorded either.
PiAfterLoad(t) ==
    /\ pc[t] = "done"
    /\ call[t].op = "predict"
    /\ loaded' = NowLoaded(t)
    /\ IF ~result[t].success
       THEN /\ presult' = [presult EXCEPT ![t].errors = Extend(@, result[t].errors)]
            /\ pc' = [pc EXCEPT ![t] = "pi_done"]
            /\ UNCHANGED <<loc, result, obs>>
       ELSE /\ pc' = [pc EXCEPT ![t] = "pi_preprocess"]
            /\ loc' = [loc EXCEPT ![t].model = result[t].model]
            /\ result' = [result EXCEPT ![t] = NoResult]
            /\ obs' = [obs EXCEPT ![t] = InitObs]
            /\ UNCHANGED presult
    /\ UNCHANGED <<model_cache, model_cache_lock, memory_only_mode, dbx, vfile, scratch,
                   nextHandle, ncalls, call>>

\* lines 312-317: only ImportError is handled (lowercase fallback); any
\* other exception of preprocess_text leaves predict_intent.
PiPreprocess(t) ==
    /\ pc[t] = "pi_preprocess"
    /\ \E out \in PreprocessOutcomes :
        /\ pc' = [pc EXCEPT ![t] = IF out = "raise" THEN "raised" ELSE "pi_predict"]
        /\ obs' = [obs EXCEPT ![t] =
                     IF out = "raise" THEN Fault(Count(@, "preprocess"), "preprocess")
                     ELSE IF out = "ok" THEN Count(@, "preprocess") ELSE @]
    /\ UNCHANGED <<model_cache, model_cache_lock, memory_only_mode, dbx, vfile, scratch,
                   nextHandle, ncalls, loaded, call, loc, result, presult>>

\* What the handle does when asked to predict:
\*   no_predict   it has no predict attribute
\*   raise        predict raises
\*   intent       {'intent': i}
\*   intent_none  {'intent': None}
\*   intent_map   {'intent': i, 'probabilities': {...}}
\*   intent_list  {'intent': i, 'probabilities': [...]}, handle has classes_
\*   intent_list_noclasses   the same, handle without classes_
\*   no_intent    a dict without 'intent'
\*   not_dict     a list or any other value
Predictions == {"no_predict", "raise", "intent", "intent_none", "intent_map",
                "intent_list", "intent_list_noclasses", "no_intent", "not_dict"}

\* prediction['intent'], None when the key is missing or holds None
Intent(p) ==
    IF p \in {"intent", "intent_map", "intent_list", "intent_list_noclasses"}
    THEN "greeting" ELSE "none"

\* prediction['probabilities'] as a dict, as a list, and the handle's classes_
OwnMap == [c \in {"greeting"} |-> 9]
ProbList == <<7, 3>>
classes_ == <<"greeting", "bye">>

\* line 339: dict(zip(classes, probs)): pairs up to the shorter length, the
\* last pair of a repeated class staying
Zip(cs, ps) ==
    LET k == IF Len(cs) < Len(ps) THEN Len(cs) ELSE Len(ps)
    IN  [c \in {cs[i] : i \in 1..k} |->
            ps[CHOOSE i \in 1..k : cs[i] = c /\ \A j \in (i + 1)..k : cs[j] # c]]

\* A normalisation that drops the probabilities.
ProbabilitiesDropped(p) == EmptyMap

\* lines 332-339
Probabilities(p) ==
    CASE p = "intent_map" -> OwnMap
      [] p = "intent_list" -> Zip(classes_, ProbList)
      [] OTHER -> EmptyMap

\* A handle without predict that goes unreported.
UnsupportedIgnored(r) == r

\* lines 344-346
Unsupported(r) == [r EXCEPT !.errors = Append(@, Err("unsupported", 0))]

\* lines 320-351; line 341 sets success from the intent for every answer
\* of predict
Predicted(r, p) ==
    CASE p = "no_predict" -> Unsupported(r)
      [] p = "raise" -> [r EXCEPT !.errors = Append(@, Err("prediction", 0))]
      [] OTHER ->
            LET r1 == IF p \in {"no_intent", "not_dict"} THEN r
                      ELSE [r EXCEPT !.intent = Intent(p),
                                     !.probabilities = Probabilities(p)]
            IN  [r1 EXCEPT !.success = (r1.intent # "none")]

PiPredict(t) ==
    /\ pc[t] = "pi_predict"
    /\ \E p \in Predictions :
        /\ presult' = [presult EXCEPT ![t] = Predicted(@, p)]
        /\ obs' = [obs EXCEPT ![t] =
                     LET o == [@ EXCEPT !.shape = p]
                     IN  IF p = "no_predict" THEN o
                         ELSE IF p = "raise" THEN Fault(Count(o, "predict"), "predict")
                         ELSE Count(o, "predict")]
    /\ pc' = [pc EXCEPT ![t] = "pi_done"]
    /\ UNCHANGED <<model_cache, model_cache_lock, memory_only_mode, dbx, vfile, scratch,
                   nextHandle, ncalls, loaded, call, loc, result>>

\* predict_intent returns its result, or its exception reaches the caller.
PiReturn(t) ==
    /\ pc[t] \in {"pi_done", "raised"}
    /\ Reset(t)
    /\ UNCHANGED <<model_cache, model_cache_lock, memory_only_mode, dbx, vfile, scratch,
                   nextHandle, ncalls, loaded>>

\* ---------------------------------------------------------- specification
\* One step of a running load_model_efficiently.
LoadStep(t) ==
    \/ AcquireCheck(t)
    \/ CacheGet(t)
    \/ GetStorageOk(t)
    \/ GetStorageRaise(t)
    \/ Query(t)
    \/ Probe(t)
    \/ ImportCt(t)
    \/ MemGet(t)
    \/ DiskMktemp(t)
    \/ DiskGet(t)
    \/ Read(t)
    \/ Write(t)
    \/ Deser(t)
    \/ Cleanup(t)
    \/ Metadata(t)
    \/ AcquireInsert(t)
    \/ Insert(t)
    \/ LoadReturn(t)

\* One step of predict_intent outside its load.
PredictStep(t) ==
    \/ PiAfterLoad(t)
    \/ PiPreprocess(t)
    \/ PiPredict(t)
    \/ PiReturn(t)

\* One caller, one call after the other.
Caller == "t1"

Next ==
    \/ Call(Caller, MaxCalls, Operations)
    \/ LoadStep(Caller)
    \/ PredictStep(Caller)

Spec == Init /\ [][Next]_vars

\* Two callers of load_model_efficiently, whose calls interleave step by step.
ConcNext == \E t \in Threads : Call(t, MaxRacing, LoadOnly) \/ LoadStep(t)

ConcSpec == Init /\ [][ConcNext]_vars

\* One step of a load whose body has at most MaxLiveBytes bytes.
LiveStep(t) ==
    \/ AcquireCheck(t)
    \/ CacheGet(t)
    \/ GetStorageOk(t)
    \/ GetStorageRaise(t)
    \/ Query(t)
    \/ Probe(t)
    \/ ImportCt(t)
    \/ MemGet(t)
    \/ DiskMktemp(t)
    \/ DiskGet(t)
    \/ ReadUpTo(t, MaxLiveBytes)
    \/ Write(t)
    \/ Deser(t)
    \/ Cleanup(t)
    \/ Metadata(t)
    \/ AcquireInsert(t)
    \/ Insert(t)
    \/ LoadReturn(t)

LiveNext == \E t \in Threads : Call(t, MaxRacing, LoadOnly) \/ LiveStep(t)

\* Two callers when every collaborator call returns, every stream ends,
\* and the scheduler keeps running each thread that can take a step.
LiveSpec ==
    /\ Init /\ [][LiveNext]_vars
    /\ \A t \in Threads : WF_vars(LiveStep(t))

\* One load whose body may be long enough for the progress log.
StreamStep(t) ==
    \/ AcquireCheck(t)
    \/ CacheGet(t)
    \/ GetStorageOk(t)
    \/ GetStorageRaise(t)
    \/ Query(t)
    \/ Probe(t)
    \/ ImportCt(t)
    \/ MemGet(t)
    \/ DiskMktemp(t)
    \/ DiskGet(t)
    \/ ReadUpTo(t, MaxStream)
    \/ Write(t)
    \/ Deser(t)
    \/ Cleanup(t)
    \/ Metadata(t)
    \/ AcquireInsert(t)
    \/ Insert(t)
    \/ LoadReturn(t)

StreamNext == Call(Caller, MaxLoads, LoadOnly) \/ StreamStep(Caller)

StreamSpec == Init /\ [][StreamNext]_vars

\* ------------------------------------------------ ensure_dropbox_folders
\* The variables of the loader, which the other components leave alone.
LoaderVars == <<model_cache, model_cache_lock, memory_only_mode, scratch,
                nextHandle, ncalls, loaded, pc, call, loc, result, presult, obs>>

\* The two definitions of ensure_dropbox_folders: model_validator_fix.py
\* and auto_training_setup.py.
Variants == {"validator", "setup"}

\* required_folders; config.DROPBOX_MODELS_FOLDER and
\* config.DROPBOX_BASE_MODEL_FOLDER stand as the names the other list spells
\* out.
required_folders(which) ==
    IF which = "validator"
    THEN <<"/nltk_data", "/nltk_data/tokenizers", "/nltk_data/corpora",
           "/training_triggers", "/backdoor_models", "/backdoor_models/trained",
           "/backdoor_models/uploaded", "/base_model">>
    ELSE <<"/training_triggers", "/backdoor_models", "/backdoor_models/trained",
           "/backdoor_models/uploaded", "/base_model">>

Required(which) ==
    {required_folders(which)[i] : i \in 1..Len(required_folders(which))}

\* The required folders that lie inside another required folder.
InNltkData == {"/nltk_data/tokenizers", "/nltk_data/corpora"}
InModels == {"/backdoor_models/trained", "/backdoor_models/uploaded"}

\* The folder a path lies in.
Parent(folder) ==
    CASE folder \in InNltkData -> "/nltk_data"
      [] folder \in InModels -> "/backdoor_models"
      [] OTHER -> "/"

\* A backend holds a folder only inside a folder it holds; creating a
\* folder creates the missing ones above it.
WithParents(folder) ==
    IF Parent(folder) = "/" THEN {folder} ELSE {folder, Parent(folder)}

Backends(which) ==
    {S \in SUBSET Required(which) : \A f \in S : WithParents(f) \subseteq S}

\* validator lines 106-108, setup lines 31-34: the call, over a backend
\* that holds some of the folders; with Dropbox disabled it returns False.
EnsureCall ==
    /\ dbx.pc = "idle"
    /\ \E which \in Variants, DROPBOX_ENABLED \in BOOLEAN :
         \E S \in Backends(which) :
            dbx' = [NoEnsure EXCEPT !.which = which, !.exists = S,
                       !.pc = IF DROPBOX_ENABLED THEN "storage" ELSE "returned",
                       !.ret = IF DROPBOX_ENABLED THEN "none" ELSE "false"]
    /\ UNCHANGED <<LoaderVars, vfile>>

\* validator lines 110-115, 146-148, setup lines 36-37, 98-100:
\* get_dropbox_storage() answers, or its exception ends the call with False
EnsureStorage ==
    /\ dbx.pc = "storage"
    /\ \/ dbx' = [dbx EXCEPT !.pc = "check", !.i = 1]
       \/ dbx' = [dbx EXCEPT !.pc = "returned", !.ret = "false"]
    /\ UNCHANGED <<LoaderVars, vfile>>

\* The loop goes to the next folder; after the last one the validator
\* returns True (lines 143-144) and the setup goes on to the README.
NextFolder(d) ==
    IF d.i < Len(required_folders(d.which))
    THEN [d EXCEPT !.pc = "check", !.i = @ + 1]
    ELSE IF d.which = "validator"
         THEN [d EXCEPT !.pc = "returned", !.ret = "true"]
         ELSE [d EXCEPT !.pc = "readme"]

\* validator lines 132-136, setup lines 51-55: files_get_metadata(folder)
\* answers for a folder that exists; it raises for one that does not, and
\* may raise for any other reason.
EnsureCheck ==
    /\ dbx.pc = "check"
    /\ LET folder == required_folders(dbx.which)[dbx.i] IN
       \/ /\ folder \in dbx.exists
          /\ dbx' = NextFolder([dbx EXCEPT !.found = @ \cup {folder}])
       \/ dbx' = [dbx EXCEPT !.pc = "create"]
    /\ UNCHANGED <<LoaderVars, vfile>>

\* validator lines 136-141, setup lines 55-60: files_create_folder_v2
\* creates the folder, or raises (the folder is there already, or any
\* other failure); the exception is logged and the loop goes on.
EnsureCreate ==
    /\ dbx.pc = "create"
    /\ LET folder == required_folders(dbx.which)[dbx.i]
           d == [dbx EXCEPT !.tried = @ \cup {folder}] IN
       \/ /\ folder \notin dbx.exists
          /\ dbx' = NextFolder([d EXCEPT !.exists = @ \cup WithParents(folder),
                                         !.created = @ \cup {folder}])
       \/ dbx' = NextFolder([d EXCEPT !.failed = @ \cup {folder}])
    /\ UNCHANGED <<LoaderVars, vfile>>

\* setup lines 62-96: the README is uploaded into /training_triggers (the
\* upload makes the folder), or the upload fails and is logged; True either
\* way.
EnsureReadme ==
    /\ dbx.pc = "readme"
    /\ \/ dbx' = [dbx EXCEPT !.pc = "returned", !.ret = "true", !.readme = "uploaded",
                               !.exists = @ \cup {"/training_triggers"}]
       \/ dbx' = [dbx EXCEPT !.pc = "returned", !.ret = "true", !.readme = "failed"]
    /\ UNCHANGED <<LoaderVars, vfile>>

FolderNext ==
    \/ EnsureCall
    \/ EnsureStorage
    \/ EnsureCheck
    \/ EnsureCreate
    \/ EnsureReadme

FolderSpec == Init /\ [][FolderNext]_vars

\* --------------------------------------------------- NamedTemporaryFile
\* mode: 'w+b' (binary, the default) or 'w+' (text)
Modes == {"w+b", "w+"}

\* line 82: 'b' not in self.mode
TextMode(mode) == mode = "w+"

\* Bytes are small numbers; a str is a sequence of code points.  As in
\* UTF-8 the code points below WIDE encode to the byte of the same value
\* and WIDE encodes to the two bytes LEAD, TRAIL.
WIDE == 200
LEAD == 3
TRAIL == 4

RECURSIVE encode(_)
\* line 84: data.encode(encoding)
encode(str) ==
    IF str = <<>> THEN <<>>
    ELSE (IF Head(str) = WIDE THEN <<LEAD, TRAIL>> ELSE <<Head(str)>>) \o encode(Tail(str))

RECURSIVE Decodable(_)
\* line 106: data.decode(encoding) raises UnicodeDecodeError on a lead
\* byte without its trail byte, and on a trail byte alone
Decodable(bytes) ==
    IF bytes = <<>> THEN TRUE
    ELSE IF Head(bytes) = LEAD
         THEN Len(bytes) >= 2 /\ bytes[2] = TRAIL /\ Decodable(Tail(Tail(bytes)))
         ELSE Head(bytes) # TRAIL /\ Decodable(Tail(bytes))

RECURSIVE decode(_)
decode(bytes) ==
    IF bytes = <<>> THEN <<>>
    ELSE IF Head(bytes) = LEAD THEN <<WIDE>> \o decode(Tail(Tail(bytes)))
         ELSE <<Head(bytes)>> \o decode(Tail(bytes))

\* What a caller passes to write: bytes, or a str.
WriteData == {[kind |-> "bytes", v |-> <<1>>], [kind |-> "bytes", v |-> <<2, 1>>],
              [kind |-> "str", v |-> <<1>>], [kind |-> "str", v |-> <<WIDE>>]}
\* The sizes passed to read (-1: all), the offsets and whences passed to seek.
ReadSizes == {-1, 0, 1, 2}
Offsets == -1..MaxFile
Whences == {0, 1, 2}

Max(a, b) == IF a > b THEN a ELSE b
Min(a, b) == IF a < b THEN a ELSE b

\* self._buffer.write(data) at position pos: a position past the end is
\* reached by padding with zero bytes, bytes under the data are replaced
BufferWrite(buffer, pos, data) ==
    LET padded == buffer \o [i \in 1..(pos - Len(buffer)) |-> 0]
    IN  [i \in 1..Max(Len(padded), pos + Len(data)) |->
            IF i > pos /\ i <= pos + Len(data) THEN data[i - pos] ELSE padded[i]]

\* self._buffer.read(size): the bytes from pos, at most size of them
BufferRead(buffer, pos, size) ==
    SubSeq(buffer, pos + 1, IF size < 0 THEN Len(buffer) ELSE Min(Len(buffer), pos + size))

\* self._buffer.seek(offset, whence): the new position, or -1 for the
\* ValueError of a negative offset from the start
BufferSeek(buffer, pos, offset, whence) ==
    CASE whence = 0 -> IF offset < 0 THEN -1 ELSE offset
      [] whence = 1 -> Max(0, pos + offset)
      [] OTHER -> Max(0, Len(buffer) + offset)

\* The operation just performed: how it ended and what it returned.
Did(f, op, raised, ret) == [f EXCEPT !.last = [op |-> op, raised |-> raised, ret |-> ret]]

\* lines 78-79, 98-99, 121-122, 133-134, 155-156: `if self.closed: raise
\* ValueError(...)`
RaisedClosed(f, op) == Did(f, op, "ValueError", <<>>)

\* A close that leaves the file open.
closeForgotten(f, by) == f

\* lines 142-146: close(); the BytesIO gives its buffer up
close(f, by) ==
    IF f.closed THEN f
    ELSE [f EXCEPT !.closed = TRUE, !.buffer_closed = TRUE, !.buffer = <<>>,
                   !.pos = 0, !.closed_by = by]

\* lines 24-57: the constructor
VCreate ==
    /\ ~vfile.made
    /\ \E mode \in Modes : vfile' = [NoFile EXCEPT !.made = TRUE, !.mode = mode]
    /\ UNCHANGED <<LoaderVars, dbx>>

\* lines 60-62: __enter__ returns the file
VEnter ==
    /\ vfile.made /\ ~vfile.inwith
    /\ vfile' = Did([vfile EXCEPT !.inwith = TRUE], "enter", "no", <<>>)
    /\ UNCHANGED <<LoaderVars, dbx>>

\* lines 64-66: __exit__ closes, whether the block ended normally or by
\* an exception, and lets the exception go on
VExit ==
    /\ vfile.made /\ vfile.inwith
    /\ \E exc \in BOOLEAN :
         LET how == IF exc THEN "exit_exc" ELSE "exit"
         IN  vfile' = Did(close([vfile EXCEPT !.inwith = FALSE], how), how, "no", <<>>)
    /\ UNCHANGED <<LoaderVars, dbx>>

\* lines 68-86: write
VWrite ==
    /\ vfile.made
    /\ \E data \in WriteData :
         IF vfile.closed THEN vfile' = RaisedClosed(vfile, "write")
         ELSE IF data.kind = "str" /\ ~TextMode(vfile.mode)
         THEN vfile' = Did(vfile, "write", "TypeError", <<>>)
         ELSE LET bytes == IF data.kind = "str" THEN encode(data.v) ELSE data.v
                  buffer == BufferWrite(vfile.buffer, vfile.pos, bytes)
              IN  /\ Len(buffer) <= MaxFile
                  /\ Len(vfile.written) + Len(bytes) <= MaxWritten
                  /\ vfile' = Did([vfile EXCEPT
                                     !.buffer = buffer,
                                     !.pos = @ + Len(bytes),
                                     !.written = @ \o bytes,
                                     !.appended = @ /\ vfile.pos = Len(vfile.buffer)],
                                  "write", "no", <<Len(bytes)>>)
    /\ UNCHANGED <<LoaderVars, dbx>>

\* lines 88-108: read; in text mode the bytes read are decoded
VRead ==
    /\ vfile.made
    /\ \E size \in ReadSizes :
         IF vfile.closed THEN vfile' = RaisedClosed(vfile, "read")
         ELSE LET data == BufferRead(vfile.buffer, vfile.pos, size)
                  f == [vfile EXCEPT !.pos = @ + Len(data)]
              IN  vfile' = IF ~TextMode(vfile.mode) THEN Did(f, "read", "no", data)
                           ELSE IF Decodable(data) THEN Did(f, "read", "no", decode(data))
                           ELSE Did(f, "read", "UnicodeDecodeError", <<>>)
    /\ UNCHANGED <<LoaderVars, dbx>>

\* lines 110-124: seek
VSeek ==
    /\ vfile.made
    /\ \E offset \in Offsets, whence \in Whences :
         IF vfile.closed THEN vfile' = RaisedClosed(vfile, "seek")
         ELSE LET pos == BufferSeek(vfile.buffer, vfile.pos, offset, whence)
              IN  /\ pos <= MaxFile
                  /\ vfile' = IF pos < 0 THEN Did(vfile, "seek", "ValueError", <<>>)
                               ELSE Did([vfile EXCEPT !.pos = pos], "seek", "no", <<pos>>)
    /\ UNCHANGED <<LoaderVars, dbx>>

\* lines 126-136: tell
VTell ==
    /\ vfile.made
    /\ vfile' = IF vfile.closed THEN RaisedClosed(vfile, "tell")
                 ELSE Did(vfile, "tell", "no", <<vfile.pos>>)
    /\ UNCHANGED <<LoaderVars, dbx>>

\* lines 138-140: flush does nothing, on a closed file too
VFlush ==
    /\ vfile.made
    /\ vfile' = Did(vfile, "flush", "no", <<>>)
    /\ UNCHANGED <<LoaderVars, dbx>>

\* lines 142-146: close
VClose ==
    /\ vfile.made
    /\ vfile' = Did(close(vfile, "close"), "close", "no", <<>>)
    /\ UNCHANGED <<LoaderVars, dbx>>

\* lines 148-168: getvalue saves the position, seeks to 0, takes the
\* buffer's value and seeks back
VGetvalue ==
    /\ vfile.made
    /\ vfile' = IF vfile.closed THEN RaisedClosed(vfile, "getvalue")
                 ELSE LET pos == vfile.pos
                          value == vfile.buffer
                      IN  Did([vfile EXCEPT !.pos = pos, !.value = value],
                              "getvalue", "no", value)
    /\ UNCHANGED <<LoaderVars, dbx>>

FileNext ==
    \/ VCreate
    \/ VEnter
    \/ VExit
    \/ VWrite
    \/ VRead
    \/ VSeek
    \/ VTell
    \/ VFlush
    \/ VClose
    \/ VGetvalue

FileSpec == Init /\ [][FileNext]_vars


\* ================================================================ claims
\* load_model_efficiently has returned to its caller; result[t] is what it
\* returned and obs[t] what the call did.
Returned_(t) == pc[t] = "done"

NoIO(o) == o.storage = 0 /\ o.head = 0 /\ o.get = 0 /\ o.deser = 0 /\ o.mkscratch = 0

\* C1: once a non-validation load of N has returned success, every later
\* non-validation load of N goes from the cache lookup straight to its
\* return, and returns success and from_cache with the handle and the
\* metadata of the cache entry of N, having called neither the storage
\* backend nor the transport nor the deserializer.
C1_WarmLoadIsCacheHit ==
    \A t \in Threads :
        obs[t].warm =>
            /\ pc[t] \in {"acquire_check", "cache_get", "done"}
            /\ NoIO(obs[t])
            /\ Returned_(t) =>
                 /\ result[t].success
                 /\ result[t].from_cache
                 /\ call[t].model_name \in DOMAIN model_cache
                 /\ result[t].model = model_cache[call[t].model_name].model
                 /\ result[t].metadata = model_cache[call[t].model_name].metadata
                 /\ result[t].model # NoHandle

C1_Witness ==
    \E t \in Threads :
        /\ Returned_(t) /\ obs[t].warm /\ result[t].from_cache
        /\ ncalls = MaxCalls

\* C2: every cache entry was built by a load that resolved a URL, got HTTP
\* 200 and deserialized a handle; a load that returns success=false has not
\* inserted, and the cache is as it was when the load was called.
C2_CacheOnlyFromGoodLoads ==
    /\ \A n \in DOMAIN model_cache :
          /\ model_cache[n].url # NoUrl
          /\ model_cache[n].status = 200
          /\ model_cache[n].deser = 1
          /\ model_cache[n].model # NoHandle
    /\ \A t \in Threads :
          (Returned_(t) /\ ~result[t].success) =>
              /\ ~obs[t].inserted
              /\ model_cache = obs[t].before

C2_Witness ==
    \E t \in Threads :
        /\ Returned_(t) /\ ~result[t].success /\ "deserialize" \in obs[t].faults
        /\ DOMAIN model_cache # {}

\* C3: a result with success=false has no handle, at the return and at every
\* point before it: the handle enters the result only together with
\* success=true.
C3_FailureHasNoHandle ==
    \A t \in Threads :
        ("model" \in DOMAIN result[t] /\ ~result[t].success) =>
            result[t].model = NoHandle

C3_Witness ==
    \E t \in Threads :
        /\ Returned_(t) /\ ~result[t].success
        /\ "metadata" \in obs[t].faults /\ obs[t].deser = 1


\* C4: neither load_model_efficiently nor predict_intent ever lets an
\* exception reach its caller, whatever the collaborators do.
C4_NeverRaises == \A t \in Threads : pc[t] # "raised"

\* The load failed: no success, no handle, an error message, no insert, and
\* the cache as it was at the call.
FailedLoad(t) ==
    /\ ~result[t].success
    /\ result[t].model = NoHandle
    /\ Len(result[t].errors) >= 1
    /\ ~obs[t].inserted
    /\ model_cache = obs[t].before

\* C5 as stated: a load during which any exception was raised has failed.
C5_AnyFaultFails ==
    \A t \in Threads :
        (Returned_(t) /\ obs[t].faults # {}) => FailedLoad(t)

\* Exceptions the code deliberately survives: a storage location that
\* raises (the next location is tried) and a failed os.unlink (a warning).
Survivable == {"storage_query", "unlink"}

\* C5, amended: a load during which an exception was raised anywhere but in
\* one storage location's query or in the deletion of the temporary file
\* has failed: success=false, no handle, an error message, no insert.
C5_EscapingFaultFails ==
    \A t \in Threads :
        (Returned_(t) /\ obs[t].faults \ Survivable # {}) => FailedLoad(t)

C5_Witness ==
    \E t \in Threads :
        /\ Returned_(t) /\ "download" \in obs[t].faults
        /\ "storage_query" \in obs[t].faults
        /\ ~result[t].success

\* C6: when resolution yields no URL the load has returned at once with
\* success=false, no handle and the resolution error as its only error,
\* without any transport request, scratch storage or deserialization, and
\* with the cache unchanged.
C6_NoUrlFailsFast ==
    \A t \in Threads :
        obs[t].url_none =>
            /\ pc[t] \in {"done", "pi_done"}
            /\ result[t].errors = <<Err("resolution", 0)>>
            /\ FailedLoad(t)
            /\ obs[t].head = 0 /\ obs[t].get = 0
            /\ obs[t].mkscratch = 0 /\ obs[t].deser = 0

C6_Witness ==
    \E t \in Threads :
        /\ Returned_(t) /\ obs[t].url_none /\ Len(obs[t].queries) = 2
        /\ DOMAIN model_cache # {}

\* C7: a validation-only load never calls the deserializer and never
\* inserts into the cache, which stays as it was at the call.
C7_ValidationOnlyLeavesCache ==
    \A t \in Threads :
        call[t].validation_only =>
            /\ obs[t].deser = 0
            /\ ~obs[t].inserted
            /\ model_cache = obs[t].before
            /\ pc[t] \in {"acquire_check", "cache_get", "get_storage", "query",
                          "probe", "done"}

C7_Witness ==
    \E t \in Threads :
        /\ Returned_(t) /\ call[t].validation_only /\ result[t].success
        /\ call[t].model_name \in DOMAIN model_cache

\* get_model_url has returned during this call.
UrlReturned(t) == obs[t].url_none \/ "download_url" \in DOMAIN result[t]

\* C8: the locations are queried in the order of folders_to_try, no
\* location is queried after one that answered with a download_url, the URL
\* returned is that location's, and a location that fails or raises is
\* followed by the next one.
C8_FoldersInOrder ==
    \A t \in Threads :
        LET q == obs[t].queries
            k == Len(q)
        IN  /\ k <= Len(folders_to_try)
            /\ \A i \in 1..k : q[i].folder = folders_to_try[i]
            /\ \A i \in 1..(k - 1) : ~q[i].ok
            /\ "download_url" \in DOMAIN result[t] =>
                  /\ k >= 1
                  /\ q[k].ok
                  /\ result[t].download_url = UrlOf(q[k].folder)
            /\ (UrlReturned(t) /\ k >= 1 /\ ~q[k].ok) => k = Len(folders_to_try)

C8_Witness ==
    \E t \in Threads :
        /\ obs[t].queries = <<[folder |-> "default", ok |-> FALSE],
                              [folder |-> "base_model", ok |-> TRUE]>>
        /\ "storage_query" \in obs[t].faults
        /\ "download_url" \in DOMAIN result[t]
        /\ result[t].download_url = "url_base_model"

\* C9 as stated: get_model_url returns None only after every location has
\* been queried.
C9_NoneOnlyAfterAll ==
    \A t \in Threads :
        obs[t].url_none => Len(obs[t].queries) = Len(folders_to_try)

\* C9, amended: when get_model_url returns None, every location has been
\* queried, unless obtaining the storage backend raised (no location is
\* queried) or the last location queried answered success with a
\* download_url of None.
C9_NoneAfterAllOrEarlyExit ==
    \A t \in Threads :
        LET q == obs[t].queries IN
        obs[t].url_none =>
            \/ Len(q) = Len(folders_to_try)
            \/ "storage_backend" \in obs[t].faults /\ q = <<>>
            \/ Len(q) >= 1 /\ q[Len(q)].ok

C9_Witness ==
    \E t \in Threads :
        /\ obs[t].url_none
        /\ Len(obs[t].queries) = 2
        /\ ~obs[t].queries[2].ok

\* No two running loads hold the same scratch object, and a load's scratch
\* object is the one made for it.
ScratchNotShared ==
    \A t, u \in Threads :
        loc[t].tmp # NoScratch =>
            /\ (t # u => loc[t].tmp # loc[u].tmp)
            /\ loc[t].tmp = obs[t].made
            /\ Exists(loc[t].tmp) => scratch.objs[loc[t].tmp].owner = t

\* C10 as stated: whatever scratch storage a load made is gone when the
\* load returns, and no scratch storage is shared.
C10_ScratchAlwaysReleased ==
    /\ ScratchNotShared
    /\ \A t \in Threads :
          (Returned_(t) /\ obs[t].made # NoScratch) => ~Exists(obs[t].made)

\* C10, amended: when a load returns, its in-memory buffer is closed; its
\* temporary file has been through the deletion step exactly once and is
\* gone unless os.unlink failed; no scratch storage is shared.
C10_ScratchReleasedUnlessUnlinkFails ==
    /\ ScratchNotShared
    /\ \A t \in Threads :
          (Returned_(t) /\ obs[t].made # NoScratch) =>
              IF memory_only_mode
              THEN ~Exists(obs[t].made)
              ELSE /\ obs[t].unlink = 1
                   /\ Exists(obs[t].made) => "unlink" \in obs[t].faults

C10_Witness ==
    \E t, u \in Threads :
        /\ t # u
        /\ Returned_(t) /\ obs[t].made # NoScratch /\ ~Exists(obs[t].made)
        /\ "deserialize" \in obs[t].faults
        /\ loc[u].tmp # NoScratch /\ Exists(loc[u].tmp)

\* The scratch kind the flag selects.
FlagKind == IF memory_only_mode THEN "mem" ELSE "disk"

\* C11: every scratch object a load creates is of the kind the memory-only
\* flag selects: with the flag set no temporary file on disk is ever made
\* and the bytes received are all in the in-memory buffer; without it the
\* load goes through the temporary file on disk.
C11_ScratchFollowsFlag ==
    /\ \A i \in DOMAIN scratch.objs : scratch.objs[i].kind = FlagKind
    /\ \A t \in Threads :
          /\ pc[t] = "mem_get" => memory_only_mode
          /\ pc[t] \in {"disk_mktemp", "disk_get", "cleanup"} => ~memory_only_mode
          /\ (memory_only_mode /\ pc[t] \in {"read", "write", "deser"}) =>
                /\ Exists(loc[t].tmp)
                /\ scratch.objs[loc[t].tmp].size = loc[t].downloaded

C11_Witness ==
    \E t \in Threads :
        /\ memory_only_mode /\ pc[t] = "deser"
        /\ scratch.objs[loc[t].tmp].kind = "mem"
        /\ scratch.objs[loc[t].tmp].size = MaxBytes

\* The download of this load was answered with a status other than 200.
BadStatus(t) == Returned_(t) /\ obs[t].status \notin {0, 200}

\* C12 as stated: after a status other than 200 the load has failed with
\* the error naming that status, without deserializing, with the cache
\* unchanged, and none of its scratch storage remains.
C12_BadStatusLeavesNothing ==
    \A t \in Threads :
        BadStatus(t) =>
            /\ FailedLoad(t)
            /\ result[t].errors = <<Err("http_status", obs[t].status)>>
            /\ obs[t].deser = 0
            /\ obs[t].made # NoScratch => ~Exists(obs[t].made)

\* C12, amended: the same, except that the temporary file of disk mode
\* remains when os.unlink failed; memory-only mode has not made a scratch
\* buffer at all when it sees the status.
C12_BadStatusFails ==
    \A t \in Threads :
        BadStatus(t) =>
            /\ FailedLoad(t)
            /\ result[t].errors = <<Err("http_status", obs[t].status)>>
            /\ obs[t].deser = 0
            /\ memory_only_mode => obs[t].made = NoScratch
            /\ (obs[t].made # NoScratch /\ Exists(obs[t].made)) =>
                  "unlink" \in obs[t].faults

C12_Witness ==
    \E t \in Threads :
        /\ BadStatus(t) /\ obs[t].status = 404
        /\ obs[t].made # NoScratch /\ ~Exists(obs[t].made)
        /\ DOMAIN model_cache # {}

\* The fields of a LoadResult.
LoadResultFields == {"success", "model", "metadata", "errors", "warnings",
                     "from_cache", "load_time"}

\* C13: every result load_model_efficiently returns has all the fields of a
\* LoadResult, the result of a cache hit included.
C13_AllFieldsPresent ==
    \A t \in Threads : Returned_(t) => LoadResultFields \subseteq DOMAIN result[t]

\* A non-validation load of n has returned success.
Obtained(t, n) ==
    /\ Returned_(t) /\ result[t].success
    /\ ~call[t].validation_only /\ call[t].model_name = n

\* C14 as stated: all successful non-validation results for a name carry
\* the same handle, and a successful result's handle is the handle of the
\* cache entry when the load returns.
C14_OneHandlePerName ==
    \A n \in Names : \A t, u \in Threads :
        (Obtained(t, n) /\ Obtained(u, n)) =>
            /\ result[t].model = result[u].model
            /\ n \in DOMAIN model_cache
            /\ result[t].model = model_cache[n].model

\* C14, amended: the handle of a successful non-validation result is the
\* handle the cache entry of the name holds at the step that completes the
\* load (the lookup that hits, or the load's own insert); and an existing
\* entry is replaced only by a load that was called before the entry
\* existed, that is by a load racing another on a cold cache.
C14_HandleFromEntry ==
    [][ /\ \A t \in Threads :
            (pc[t] # "done" /\ pc'[t] = "done" /\ result'[t].success
               /\ ~call[t].validation_only) =>
                /\ call[t].model_name \in DOMAIN model_cache'
                /\ result'[t].model = model_cache'[call[t].model_name].model
                /\ result'[t].model # NoHandle
        /\ \A n \in DOMAIN model_cache :
            model_cache'[n] # model_cache[n] =>
                \E t \in Threads :
                    /\ pc[t] = "insert" /\ call[t].model_name = n
                    /\ n \notin DOMAIN obs[t].before
                    /\ model_cache'[n].model = loc[t].model
      ]_vars

C14_Witness ==
    \E t, u \in Threads :
        /\ t # u
        /\ Obtained(t, "a") /\ Obtained(u, "a")
        /\ obs[t].inserted /\ obs[u].inserted
        /\ result[t].model # result[u].model

\* predict_intent is about to return after its load failed: result[t] is
\* still the failed load's result.
LoadFailedInPredict(t) == pc[t] = "pi_done" /\ "errors" \in DOMAIN result[t]

\* C15: when its load fails, predict_intent returns success=false, no
\* intent, empty probabilities and exactly the load's errors in their
\* order, without having called the preprocessor or a predict; and it never
\* goes on to preprocessing or prediction with a failed load.
C15_LoadFailurePropagates ==
    \A t \in Threads :
        /\ LoadFailedInPredict(t) =>
              /\ ~result[t].success
              /\ ~presult[t].success
              /\ presult[t].intent = "none"
              /\ presult[t].probabilities = EmptyMap
              /\ presult[t].errors = result[t].errors
              /\ Len(presult[t].errors) >= 1
              /\ obs[t].preprocess = 0 /\ obs[t].predict = 0
              /\ obs[t].shape = "none"
        /\ pc[t] \in {"pi_preprocess", "pi_predict", "raised"} =>
              /\ loc[t].model # NoHandle
              /\ presult[t] = FreshPResult

C15_Witness ==
    \E t \in Threads :
        /\ LoadFailedInPredict(t)
        /\ "deserialize" \in obs[t].faults
        /\ Len(presult[t].errors) = 1

\* C16: when predict answers a map with an intent, predict_intent returns
\* success with that intent, no error, and as probabilities the answer's
\* own map, or the handle's classes paired with the answer's list, or the
\* empty map when the answer has no probabilities.
C16_IntentNormalised ==
    \A t \in Threads :
        (pc[t] = "pi_done" /\ obs[t].shape \in {"intent", "intent_map", "intent_list"}) =>
            /\ presult[t].success
            /\ presult[t].intent = "greeting"
            /\ presult[t].errors = <<>>
            /\ presult[t].probabilities =
                  CASE obs[t].shape = "intent_map" -> ("greeting" :> 9)
                    [] obs[t].shape = "intent_list" -> ("greeting" :> 7) @@ ("bye" :> 3)
                    [] OTHER -> EmptyMap

C16_Witness ==
    \E t \in Threads :
        /\ pc[t] = "pi_done" /\ obs[t].shape = "intent_list"
        /\ DOMAIN presult[t].probabilities = {"greeting", "bye"}

\* C17: when the handle has no predict, predict_intent returns
\* success=false, no intent, and the unsupported-model error, without
\* having called predict.
C17_NoPredictFails ==
    \A t \in Threads :
        (pc[t] = "pi_done" /\ obs[t].shape = "no_predict") =>
            /\ ~presult[t].success
            /\ presult[t].intent = "none"
            /\ presult[t].errors = <<Err("unsupported", 0)>>
            /\ obs[t].predict = 0

C17_Witness ==
    \E t \in Threads :
        /\ pc[t] = "pi_done" /\ obs[t].shape = "no_predict"
        /\ presult[t].probabilities = EmptyMap

\* C18: in memory-only mode the loader holds at most one chunk that is not
\* yet in the scratch buffer, of at most 1 MiB, and asks the transport for
\* the next chunk only when it holds none: everything received before is in
\* the buffer.
C18_OneChunkInFlight ==
    \A t \in Threads :
        (loc[t].mem /\ pc[t] \in {"read", "write", "deser"}) =>
            /\ loc[t].chunk <= CHUNK_SIZE
            /\ pc[t] = "write" => loc[t].chunk >= 1
            /\ pc[t] \in {"read", "deser"} => loc[t].chunk = 0
            /\ scratch.objs[loc[t].tmp].size = loc[t].downloaded

C18_Witness ==
    \E t \in Threads :
        /\ loc[t].mem /\ pc[t] = "write"
        /\ scratch.objs[loc[t].tmp].size >= 1
        /\ scratch.objs[loc[t].tmp].size + loc[t].chunk > CHUNK_SIZE

\* A disk-mode load whose download succeeded and whose deserialization
\* raised has returned.
DeserFailedOnDisk(t) ==
    /\ Returned_(t) /\ ~memory_only_mode
    /\ obs[t].status = 200 /\ "deserialize" \in obs[t].faults

\* C19 as stated: after a good download and a failed deserialization in
\* disk mode the temporary file has been deleted, once, and the load has
\* failed with no handle and the cache unchanged; the deletion step has run
\* once whenever the deserializer was called.
C19_DeletedOnceOnDeserFailure ==
    \A t \in Threads :
        /\ DeserFailedOnDisk(t) =>
              /\ FailedLoad(t)
              /\ obs[t].unlink = 1
              /\ ~Exists(obs[t].made)
        /\ (Returned_(t) /\ ~memory_only_mode /\ obs[t].deser = 1) =>
              obs[t].unlink = 1

\* C19, amended: the deletion is attempted exactly once, and the file is
\* gone unless that os.unlink failed.
C19_DeletionTriedOnce ==
    \A t \in Threads :
        /\ DeserFailedOnDisk(t) =>
              /\ FailedLoad(t)
              /\ obs[t].unlink = 1
              /\ Exists(obs[t].made) => "unlink" \in obs[t].faults
        /\ (Returned_(t) /\ ~memory_only_mode /\ obs[t].deser = 1) =>
              obs[t].unlink = 1

C19_Witness ==
    \E t \in Threads :
        /\ DeserFailedOnDisk(t)
        /\ obs[t].unlink = 1 /\ ~Exists(obs[t].made)
        /\ DOMAIN model_cache # {}

\* The positions inside the two with-blocks of model_cache_lock.
Critical == {"cache_get", "insert"}

\* C20: a thread holds the lock exactly while it is at the cache lookup or
\* at the cache insert, the only places that read or write the cache; so a
\* thread that is resolving, probing, downloading, writing scratch storage
\* or deserializing does not hold it, and at most one thread is at the
\* cache.
C20_LockOnlyAroundCache ==
    /\ \A t \in Threads : (model_cache_lock = t) <=> (pc[t] \in Critical)
    /\ \A t, u \in Threads : (pc[t] \in Critical /\ pc[u] \in Critical) => t = u

C20_Witness ==
    \E t, u \in Threads :
        /\ model_cache_lock = t /\ pc[t] = "insert"
        /\ pc[u] \in {"query", "read", "write", "deser", "cleanup"}

\* Thread t completes its cache insert in this step.
Inserts(t) == pc[t] = "insert" /\ pc'[t] = "done"

\* C21: two loads of the same uncached name may both go through the whole
\* sequence; each insert replaces the entry of the name by the inserting
\* load's own, the name has one entry, and nothing but an insert changes
\* the cache: so the entry is that of the load that inserted last.
C21_LastInsertWins ==
    [][ /\ \A t \in Threads :
            Inserts(t) =>
                /\ DOMAIN model_cache' = DOMAIN model_cache \cup {call[t].model_name}
                /\ model_cache'[call[t].model_name].model = loc[t].model
                /\ model_cache'[call[t].model_name].metadata = ModelMeta(loc[t].model)
        /\ (\A t \in Threads : ~Inserts(t)) => model_cache' = model_cache
        /\ \A t, u \in Threads, n \in Names :
             (t # u /\ Obtained(t, n) /\ Obtained(u, n)
                    /\ obs[t].inserted /\ obs[u].inserted) =>
                 model_cache[n].model \in {result[t].model, result[u].model}
      ]_vars

C21_Witness ==
    \E t, u \in Threads :
        /\ t # u
        /\ Obtained(t, "b") /\ Obtained(u, "b")
        /\ obs[t].inserted /\ obs[u].inserted /\ obs[t].deser = 1 /\ obs[u].deser = 1
        /\ DOMAIN model_cache = {"b"}
        /\ model_cache["b"].model = result[u].model
        /\ model_cache["b"].model # result[t].model

\* Positions of a load that is downloading or deserializing.
Stalled == {"mem_get", "disk_get", "read", "write", "deser"}

\* C22: while a load is in its download or deserialization it does not
\* hold the lock, so a load of another name is never kept waiting by it;
\* and a step of one load changes neither the other load's result nor the
\* cache entry of any name but its own.
C22_DifferentNamesIndependent ==
    [][ \A t, u \in Threads :
          (t # u) =>
            /\ pc[t] \in Stalled => model_cache_lock \in {NoThread, u}
            /\ (pc[t] \in Stalled /\ pc[u] \in {"acquire_check", "acquire_insert"}) =>
                  ENABLED LoadStep(u)
            /\ pc'[u] # pc[u] =>
                  /\ result'[t] = result[t]
                  /\ \A n \in DOMAIN model_cache :
                        n # call[u].model_name =>
                            /\ n \in DOMAIN model_cache'
                            /\ model_cache'[n] = model_cache[n]
      ]_vars

C22_Witness ==
    \E t, u \in Threads :
        /\ pc[t] = "deser" /\ call[t].model_name = "a"
        /\ Obtained(u, "b") /\ obs[u].inserted
        /\ obs[t].made # NoScratch /\ obs[t].made < obs[u].made
        /\ DOMAIN model_cache = {"b"}

\* C25: a validation-only load makes at most one HEAD request and no GET
\* request; a load that is not validation-only makes no HEAD request.
C25_ProbeOnlyWhenValidating ==
    \A t \in Threads :
        IF call[t].validation_only
        THEN obs[t].head <= 1 /\ obs[t].get = 0 /\ obs[t].mkscratch = 0
        ELSE obs[t].head = 0

C25_Witness ==
    \E t \in Threads :
        /\ Returned_(t) /\ call[t].validation_only
        /\ obs[t].head = 1 /\ result[t].metadata = ProbeMeta

\* C26: a result with success=false, of load_model_efficiently or of
\* predict_intent, has at least one error message.
C26_FailureHasError ==
    \A t \in Threads :
        /\ (Returned_(t) /\ ~result[t].success) => Len(result[t].errors) >= 1
        /\ (pc[t] = "pi_done" /\ ~presult[t].success) => Len(presult[t].errors) >= 1

\* A validation-only load of a name that had a cache entry when it was
\* called.
ValidatingCached(t) ==
    call[t].validation_only /\ call[t].model_name \in DOMAIN obs[t].before

\* C27 as stated: such a load does not use the cache, has resolved and
\* probed when it returns, returns from_cache=false, no handle and the
\* probe's metadata, and leaves the entry as it was.
C27_ValidationResolvesAndProbes ==
    \A t \in Threads :
        (ValidatingCached(t) /\ Returned_(t)) =>
            /\ ~obs[t].hit /\ ~result[t].from_cache
            /\ obs[t].storage >= 1 /\ obs[t].head = 1
            /\ result[t].metadata = ProbeMeta
            /\ result[t].model = NoHandle
            /\ model_cache = obs[t].before

\* C27, amended: such a load does not use the cache: it goes to URL
\* resolution, probes once when resolution gives a URL, returns
\* from_cache=false and no handle, with the probe's metadata when the probe
\* succeeds, and leaves the entry as it was.
C27_ValidationBypassesCache ==
    \A t \in Threads :
        ValidatingCached(t) =>
            /\ ~obs[t].hit
            /\ model_cache = obs[t].before
            /\ Returned_(t) =>
                  /\ ~result[t].from_cache
                  /\ result[t].model = NoHandle
                  /\ obs[t].storage >= 1 \/ "storage_backend" \in obs[t].faults
                  /\ obs[t].head = IF obs[t].url_none THEN 0 ELSE 1
                  /\ result[t].success <=> result[t].metadata = ProbeMeta
                  /\ result[t].success \/ result[t].metadata = EmptyMeta

C27_Witness ==
    \E t \in Threads :
        /\ ValidatingCached(t) /\ Returned_(t)
        /\ result[t].success /\ result[t].metadata = ProbeMeta
        /\ obs[t].head = 1

\* The loader is between two chunks, or about to deserialize.
BetweenChunks(t) == pc[t] \in {"read", "deser"} /\ loc[t].tmp # NoScratch

\* C23: when the deserializer is invoked, the loader's byte count and the
\* size of the scratch object both equal the sum of the lengths of the
\* chunks served.
C23_CountIsSumOfChunks ==
    \A t \in Threads :
        pc[t] = "deser" =>
            /\ loc[t].downloaded = obs[t].served
            /\ scratch.objs[loc[t].tmp].size = obs[t].served

\* C24: in either scratch mode the loader's byte count follows the bytes
\* received, and it has logged the progress once for every PROGRESS_EVERY
\* bytes received so far.
C24_ProgressEvery20MiB ==
    \A t \in Threads :
        BetweenChunks(t) =>
            /\ loc[t].downloaded = obs[t].served
            /\ obs[t].progress = obs[t].served \div PROGRESS_EVERY

\* C29: when ensure_dropbox_folders has returned True, every folder of its
\* required list exists in the backend, each found by the metadata check
\* or created; no folder found by the check was created again; and every
\* folder of the list was processed.
C29_TrueMeansAllExist ==
    dbx.ret = "true" =>
        /\ Required(dbx.which) \subseteq dbx.exists
        /\ Required(dbx.which) = dbx.found \cup dbx.created
        /\ dbx.found \cap dbx.tried = {}
        /\ dbx.found \cup dbx.tried = Required(dbx.which)

\* The operations that a closed file refuses.
Refused == {"write", "read", "seek", "tell", "getvalue"}
\* The ways a file is closed.
Closings == {"close", "exit", "exit_exc"}

\* Once closed the file stays closed, an operation on it changes nothing
\* of the file, the refused operations raise and close() does not; and a
\* close() or the end of a with-block leaves the file closed.
ClosedForGood ==
    /\ vfile'.last.op \in Closings => vfile'.closed /\ vfile'.last.raised = "no"
    /\ vfile.closed =>
          /\ vfile'.closed
          /\ vfile'.buffer = vfile.buffer /\ vfile'.pos = vfile.pos
          /\ vfile'.written = vfile.written /\ vfile'.closed_by = vfile.closed_by
          /\ vfile'.last.op \in Refused => vfile'.last.raised = "ValueError"

\* This step is a getvalue on an open file.
OpenGetvalue == ~vfile.closed /\ vfile # vfile' /\ vfile'.last.op = "getvalue"

RECURSIVE InOrder(_, _)
\* The bytes of `written` all occur in `value`, in the same order.
InOrder(written, value) ==
    IF written = <<>> THEN TRUE
    ELSE IF value = <<>> THEN FALSE
    ELSE IF Head(written) = Head(value) THEN InOrder(Tail(written), Tail(value))
    ELSE InOrder(written, Tail(value))

\* C30 as stated: a closed file stays closed and refuses write, read,
\* seek, tell and getvalue; on an open file getvalue returns all the bytes
\* written so far, in the order written, and keeps the position.
C30_GetvalueIsAllWritten ==
    [][ /\ ClosedForGood
        /\ OpenGetvalue =>
              /\ InOrder(vfile.written, vfile'.last.ret)
              /\ vfile'.pos = vfile.pos
      ]_vars

\* C30, amended: as above, but on an open file getvalue returns the
\* buffer's contents, which are all the bytes written so far in the order
\* written when every write was made at the end of the buffer.
C30_GetvalueIsBuffer ==
    [][ /\ ClosedForGood
        /\ OpenGetvalue =>
              /\ vfile'.last.raised = "no"
              /\ vfile'.last.ret = vfile.buffer
              /\ vfile.appended => vfile'.last.ret = vfile.written
              /\ vfile'.pos = vfile.pos /\ vfile'.buffer = vfile.buffer
      ]_vars

C30_Witness ==
    /\ vfile.closed /\ vfile.closed_by = "exit_exc"
    /\ vfile.last.op = "getvalue" /\ vfile.last.raised = "ValueError"
    /\ vfile.appended /\ Len(vfile.written) = 3 /\ vfile.value = vfile.written

\* Thread t is inside a call of load_model_efficiently.
Running(t) == pc[t] \notin {"idle", "done"}

====
